---- MODULE Spec2Model ----
(***************************************************************************)
(* PoolAllocator<T> (include/poolAllocator.hpp): a slot pool with an       *)
(* intrusive free-list threaded through the slots of malloc'ed blocks, and *)
(* a registry of dedicated allocations for requests of more than one       *)
(* element.                                                                *)
(*                                                                         *)
(* A pointer is a pair <<a, i>>: element index i of the malloc region      *)
(* whose base address is a.  <<a, 0>> is the region's own address (the     *)
(* void* malloc returned); NULL is <<0, 0>>.  In all but the last part    *)
(* the element type is as large as a link pointer (SizeofT = sizeof(Slot)) *)
(* and link holds one pointer per slot; the part on element sizes keeps    *)
(* the blocks cell by cell instead, for the pool of int elements.          *)
(* std::malloc returns any base address that is not in use, so an address  *)
(* that was freed can be handed out again, or a null pointer.              *)
(***************************************************************************)
EXTENDS Integers, Sequences, FiniteSets, TLC

\* ------------------------------------------------------------- bounds
\* base addresses the system allocator can hand out
NumAddr == 2
\* size_type arithmetic is modulo SizeMod (stands for 2^64)
SizeMod == 1024
\* single slots handed out at once under Spec
MaxOut == 1
\* single slots handed out at once under SpecPair
MaxPairOut == 1
\* single slots handed out at once under SpecBulk
MaxBulkOut == 17
\* single slots handed out at once under SpecFree
MaxFreeOut == 2
\* single slots handed out at once by each pool under SpecTwin
MaxTwinOut == 17
\* single slots handed out at once by each pool under SpecLayout
MaxLayoutOut == 2
\* largest n of allocate(n)
MaxN == 2

\* ------------------------------------------------------------- program constants
default_block_size == 16
SizeofT == 8
\* the initial capacity of the demonstration's pools
ScenarioCap == 10
\* sizeof(int), the element type of pool10i
SizeofInt == 4
\* sizeof(Slot), one pointer
SizeofSlot == 8

\* the pool objects: 1 is the pool of the one-pool specifications, and the two are
\* the source and the destination of a copy or a move
Pools == {1, 2}
Addr == 1..NumAddr
\* the base addresses a second pool that runs beside the first is served from
TwinAddr == {NumAddr + a : a \in Addr}
NULL == <<0, 0>>
\* capacities passed to the constructor and to reserve
Caps == {ScenarioCap, default_block_size + 1}
\* the n of a deallocate that takes the large path (any n other than 1)
LargeNs == {0} \cup (2..MaxN)

Max(a, b) == IF a >= b THEN a ELSE b

VARIABLES
    \* data members, one value per pool object
    blocks, large_allocs, free_list, total_slots, used_slots,
    \* the system heap: heap[a] = bytes of the live region at a (0: not allocated),
    \* link[a][i + 1] = the Slot::next stored in element i of the region at a
    heap, link,
    \* the contents of the regions cell by cell (a cell is sizeof(int) bytes), kept in
    \* the behaviours that follow an element type smaller than a link pointer:
    \* cells[a][u] = what was stored last in cell u of the region at a; cells beyond the
    \* region's size are bytes that were written past its end
    cells,
    \* which pool objects are constructed
    alive,
    \* history: the slots callers hold (each with the pool that handed it out), the
    \* large regions each pool handed out and has not freed, whether a pool was handed
    \* a slot that was not outstanding, the last call, and, in the behaviours that
    \* start with tracking on, every address a large request ever returned
    held, outLarge, misuse, last, tracking, everLarge

vars == <<blocks, large_allocs, free_list, total_slots, used_slots, heap, link, cells,
          alive, held, outLarge, misuse, last, tracking, everLarge>>

\* ------------------------------------------------------------- the object and the heap
Self(p) == [blocks |-> blocks[p], large_allocs |-> large_allocs[p],
            free_list |-> free_list[p], total_slots |-> total_slots[p],
            used_slots |-> used_slots[p]]

Mem == [heap |-> heap, link |-> link]

\* the default member initialisers
EmptyPool == [blocks |-> <<>>, large_allocs |-> <<>>, free_list |-> NULL,
              total_slots |-> 0, used_slots |-> 0]

FreeAddrs(m) == {a \in Addr : m.heap[a] = 0}

\* std::malloc returning raw: the region is live, its contents are not initialised;
\* raw = 0 is the null pointer of a failed call
malloc(m, raw, bytes) ==
    IF raw = 0 THEN m ELSE [m EXCEPT !.heap[raw] = bytes, !.link[raw] = <<>>]

\* std::free of the region a void* points to
free(m, ptr) == [m EXCEPT !.heap[ptr[1]] = 0, !.link[ptr[1]] = <<>>]

RECURSIVE FreeEach(_, _)
FreeEach(m, ptrs) ==
    IF ptrs = <<>> THEN m ELSE FreeEach(free(m, Head(ptrs)), Tail(ptrs))

\* s->next
Next_(m, s) == m.link[s[1]][s[2] + 1]

\* std::find: the index of the first occurrence, 0 for end()
Find(seq, x) ==
    IF \E i \in 1..Len(seq) : seq[i] = x
    THEN CHOOSE i \in 1..Len(seq) : seq[i] = x /\ \A j \in 1..(i - 1) : seq[j] # x
    ELSE 0

\* vector::erase(it)
Erase(seq, i) == SubSeq(seq, 1, i - 1) \o SubSeq(seq, i + 1, Len(seq))

Range(seq) == {seq[i] : i \in 1..Len(seq)}
Count(seq, x) == Cardinality({i \in 1..Len(seq) : seq[i] = x})

\* ------------------------------------------------------------- private members
\* what a member function hands back: the object, the memory, the returned value, and
\* whether it left by throwing std::bad_alloc
Return(s, m, ret) == [s |-> s, m |-> m, ret |-> ret, threw |-> FALSE]
Throw(s, m) == [s |-> s, m |-> m, ret |-> NULL, threw |-> TRUE]

\* a faulty growth: the last slot is pushed first, so slot 0 becomes the head
push_slots_backwards(s, m, raw, block_slots) ==
    LET chain == [i \in 1..block_slots |->
                     IF i = block_slots THEN s.free_list ELSE <<raw, i>>]
    IN Return([s EXCEPT !.blocks = Append(@, <<raw, 0>>),
                        !.free_list = <<raw, 0>>,
                        !.total_slots = (@ + block_slots) % SizeMod],
              [m EXCEPT !.link[raw] = chain], NULL)

\* a faulty growth: the new slots are not added to total_slots
push_slots_uncounted(s, m, raw, block_slots) ==
    LET chain == [i \in 1..block_slots |->
                     IF i = 1 THEN s.free_list ELSE <<raw, i - 2>>]
    IN Return([s EXCEPT !.blocks = Append(@, <<raw, 0>>),
                        !.free_list = <<raw, block_slots - 1>>],
              [m EXCEPT !.link[raw] = chain], NULL)

\* the part of expand after the block is recorded: slot 0 is pushed first, so the last
\* slot becomes the head
push_slots(s, m, raw, block_slots) ==
    LET chain == [i \in 1..block_slots |->
                    IF i = 1 THEN s.free_list ELSE <<raw, i - 2>>]
    IN Return([s EXCEPT !.blocks = Append(@, <<raw, 0>>),
                        !.free_list = <<raw, block_slots - 1>>,
                        !.total_slots = (@ + block_slots) % SizeMod],
              [m EXCEPT !.link[raw] = chain], NULL)

\* a faulty expand: the block has exactly count slots, with no minimum
expand_exact(s, m, count, raw, room) ==
    IF raw = 0 THEN Throw(s, m)
    ELSE IF ~room THEN Throw(s, malloc(m, raw, (count * SizeofT) % SizeMod))
    ELSE push_slots(s, malloc(m, raw, (count * SizeofT) % SizeMod), raw, count)

\* a faulty expand: the block is recorded before the result of malloc is looked at
expand_recorded(s, m, count, raw, room) ==
    LET block_slots == Max(count, default_block_size)
        m1 == malloc(m, raw, (block_slots * SizeofT) % SizeMod)
    IN IF raw = 0 \/ ~room THEN Throw([s EXCEPT !.blocks = Append(@, <<raw, 0>>)], m1)
       ELSE push_slots(s, m1, raw, block_slots)

\* expand(count): one new block of max(count, default_block_size) slots. raw is what
\* malloc returns (0: a null pointer) and room is whether blocks.push_back finds the
\* memory it needs; when it does not, the region at raw stays allocated
expand(s, m, count, raw, room) ==
    LET block_slots == Max(count, default_block_size)
        bytes == (block_slots * SizeofT) % SizeMod
        m1 == malloc(m, raw, bytes)
    IN IF raw = 0 THEN Throw(s, m)
       ELSE IF ~room THEN Throw(s, m1)
       ELSE push_slots(s, m1, raw, block_slots)

\* ensure_free_slot(): expands by a default block when the free-list is empty
ensure_free_slot(s, m, raw, room) ==
    IF s.free_list # NULL
    THEN Return(s, m, TRUE)
    ELSE LET e == expand(s, m, default_block_size, raw, room)
         IN IF e.threw THEN e ELSE Return(e.s, e.m, e.s.free_list # NULL)

\* a faulty pop_from_block(): returns the head and leaves it on the free-list
pop_from_block_kept(s, m) ==
    [s |-> s, ret |-> s.free_list]

\* pop_from_block(): pops the free-list head
pop_from_block(s, m) ==
    [s |-> [s EXCEPT !.free_list = Next_(m, s.free_list)], ret |-> s.free_list]

\* ------------------------------------------------------------- public members
\* a faulty allocate(1) from the free-list: the slot is not counted
allocate_free_uncounted(s, m) ==
    Return([s EXCEPT !.free_list = Next_(m, s.free_list)], m, s.free_list)

\* allocate(1) with a non-empty free-list: pops the head
allocate_free(s, m) ==
    Return([s EXCEPT !.free_list = Next_(m, s.free_list),
                     !.used_slots = (@ + 1) % SizeMod],
           m, s.free_list)

\* allocate(1) with an empty free-list: grows, then pops; raw is the new block
allocate_grow(s, m, raw, room) ==
    LET e == ensure_free_slot(s, m, raw, room)
        g == IF e.ret THEN e
             ELSE expand(e.s, e.m, Max(1, default_block_size),
                         CHOOSE a \in Addr : e.m.heap[a] = 0, room)
        q == pop_from_block(g.s, g.m)
    IN IF e.threw THEN e
       ELSE IF g.threw THEN g
       ELSE Return([q.s EXCEPT !.used_slots = (@ + 1) % SizeMod], g.m, q.ret)

\* a faulty allocate(n > 1): the region is counted as a slot in use
allocate_large_counted(s, m, n, raw, room) ==
    IF raw = 0 THEN Throw(s, m)
    ELSE IF ~room THEN Throw(s, malloc(m, raw, (n * SizeofT) % SizeMod))
    ELSE Return([s EXCEPT !.large_allocs = Append(@, <<raw, 0>>),
                          !.used_slots = (@ + 1) % SizeMod],
                malloc(m, raw, (n * SizeofT) % SizeMod), <<raw, 0>>)

\* allocate(n) for n > 1: a dedicated region at raw, recorded in large_allocs. raw is
\* what malloc returns (0: a null pointer) and room is whether large_allocs.push_back
\* finds the memory it needs; when it does not, the region at raw stays allocated
allocate_large(s, m, n, raw, room) ==
    LET bytes == (n * SizeofT) % SizeMod
        m1 == malloc(m, raw, bytes)
    IN IF raw = 0 THEN Throw(s, m)
       ELSE IF ~room THEN Throw(s, m1)
       ELSE Return([s EXCEPT !.large_allocs = Append(@, <<raw, 0>>)], m1, <<raw, 0>>)

\* allocate(n); raw and room are what malloc and push_back do if this call reaches them
allocate(s, m, n, raw, room) ==
    IF n = 0 THEN Return(s, m, NULL)
    ELSE IF n = 1 THEN
        IF s.free_list # NULL THEN allocate_free(s, m)
        ELSE allocate_grow(s, m, raw, room)
    ELSE allocate_large(s, m, n, raw, room)

\* whether allocate(n) calls malloc in state s
CallsMalloc(s, n) == n > 1 \/ (n = 1 /\ s.free_list = NULL)

\* a faulty deallocate(ptr, 1): the slot is linked but does not become the head
deallocate_slot_unlinked(s, m, ptr) ==
    [s |-> [s EXCEPT !.used_slots = (@ - 1) % SizeMod],
     m |-> [m EXCEPT !.link[ptr[1]][ptr[2] + 1] = s.free_list]]

\* deallocate(ptr, 1): pushes the slot on the free-list
deallocate_slot(s, m, ptr) ==
    [s |-> [s EXCEPT !.free_list = ptr, !.used_slots = (@ - 1) % SizeMod],
     m |-> [m EXCEPT !.link[ptr[1]][ptr[2] + 1] = s.free_list]]

\* a faulty deallocate(ptr, n > 1): the region is freed, its record is kept
deallocate_large_kept(s, m, ptr) ==
    IF Find(s.large_allocs, ptr) # 0 THEN [s |-> s, m |-> free(m, ptr)]
    ELSE [s |-> s, m |-> m]

\* a faulty deallocate(ptr, n > 1): the pointer is freed even when it is not recorded
deallocate_large_unchecked(s, m, ptr) ==
    LET it == Find(s.large_allocs, ptr)
    IN [s |-> IF it # 0 THEN [s EXCEPT !.large_allocs = Erase(@, it)] ELSE s,
        m |-> free(m, ptr)]

\* deallocate(ptr, n) for n other than 1: frees and erases a recorded region
deallocate_large(s, m, ptr) ==
    LET it == Find(s.large_allocs, ptr)
    IN IF it # 0
       THEN [s |-> [s EXCEPT !.large_allocs = Erase(@, it)],
             m |-> free(m, s.large_allocs[it])]
       ELSE [s |-> s, m |-> m]

\* deallocate(ptr, n)
deallocate(s, m, ptr, n) ==
    IF ptr = NULL THEN [s |-> s, m |-> m]
    ELSE IF n = 1 THEN deallocate_slot(s, m, ptr)
    ELSE deallocate_large(s, m, ptr)

\* a faulty reserve: it grows by one default block whatever is missing
reserve_default(s, m, new_cap, raw, room) ==
    IF new_cap <= s.total_slots THEN Return(s, m, NULL)
    ELSE expand(s, m, default_block_size, raw, room)

\* a faulty reserve: it grows by the capacity asked for, not by what is missing
reserve_absolute(s, m, new_cap, raw, room) ==
    IF new_cap <= s.total_slots THEN Return(s, m, NULL)
    ELSE expand(s, m, new_cap, raw, room)

\* reserve(new_cap)
reserve(s, m, new_cap, raw, room) ==
    IF new_cap <= s.total_slots THEN Return(s, m, NULL)
    ELSE expand(s, m, (new_cap - s.total_slots) % SizeMod, raw, room)

\* a faulty release_all: the large regions are freed, their records are kept
release_all_kept(s, m) ==
    [s |-> [s EXCEPT !.blocks = <<>>, !.free_list = NULL,
                     !.total_slots = 0, !.used_slots = 0],
     m |-> FreeEach(FreeEach(m, s.blocks), s.large_allocs)]

\* a faulty release_all(): the free-list head is kept
release_all_dangling(s, m) ==
    [s |-> [s EXCEPT !.blocks = <<>>, !.large_allocs = <<>>,
                     !.total_slots = 0, !.used_slots = 0],
     m |-> FreeEach(FreeEach(m, s.blocks), s.large_allocs)]

\* release_all()
release_all(s, m) ==
    [s |-> [s EXCEPT !.blocks = <<>>, !.large_allocs = <<>>, !.free_list = NULL,
                     !.total_slots = 0, !.used_slots = 0],
     m |-> FreeEach(FreeEach(m, s.blocks), s.large_allocs)]

\* PoolAllocator(initial_capacity); the constructor is noexcept, so a reserve that
\* throws ends the program (std::terminate)
ctor(m, initial_capacity, raw, room) ==
    IF initial_capacity > 0 THEN reserve(EmptyPool, m, initial_capacity, raw, room)
    ELSE Return(EmptyPool, m, NULL)

\* a faulty copy constructor: the memberwise copy
copy_members(other) == other

\* PoolAllocator(const PoolAllocator& other): the body is empty
copy_ctor(other) == EmptyPool

\* a faulty move constructor: the free-list head stays behind
move_ctor_headless(other) ==
    [self |-> [EmptyPool EXCEPT !.blocks = other.blocks,
                                !.total_slots = other.total_slots,
                                !.used_slots = other.used_slots],
     other |-> [other EXCEPT !.blocks = <<>>, !.total_slots = 0, !.used_slots = 0]]

\* PoolAllocator(PoolAllocator&& other): the new object and what is left of other
\* (the moved-from vector is empty)
move_ctor(other) ==
    [self |-> [EmptyPool EXCEPT !.blocks = other.blocks,
                                !.free_list = other.free_list,
                                !.total_slots = other.total_slots,
                                !.used_slots = other.used_slots],
     other |-> [other EXCEPT !.blocks = <<>>, !.free_list = NULL,
                             !.total_slots = 0, !.used_slots = 0]]

\* ------------------------------------------------------------- history
\* the record of a call: op on pool, with argument/result ptr and count n; from is
\* the other pool of a copy or move; by is the pool whose allocate(1) handed out the
\* slot a deallocate(ptr, 1) returns; an allocate(1) that is the run-th of the
\* consecutive allocate(1) calls following reserve(k) on the same pool carries k and
\* run (run = 0 for the reserve itself); an allocate(1) carries in prev the call that
\* came just before it on the same pool, if that was a deallocate(ptr, 1) or a
\* release_all, and then the by and the freed of that call; freed is the number of
\* heap regions the call freed; threw is whether the call left by throwing
Call(op, p, from, ptr, n, by, k, run, prev, freed) ==
    [op |-> op, pool |-> p, from |-> from, ptr |-> ptr, n |-> n, by |-> by,
     k |-> k, run |-> run, prev |-> prev, freed |-> freed, threw |-> FALSE,
     twin |-> NULL, blk |-> 0, nth |-> 0]

\* the number of regions that are live now and freed in m
Freed(m) == Cardinality({a \in Addr : heap[a] # 0 /\ m.heap[a] = 0})

\* what an allocate(1) on p records of the call before it
Prev(p) ==
    IF last.pool = p /\ last.op = "release_all" THEN "release_all"
    ELSE IF last.pool = p /\ last.op = "deallocate" /\ last.n = 1 /\ last.ptr # NULL
    THEN "deallocate"
    ELSE "none"

HeldPtrs == {h.ptr : h \in held}
\* the slots callers hold that lie in a block p owns
HeldIn(p) == {h.ptr : h \in {e \in held : <<e.ptr[1], 0>> \in Range(blocks[p])}}

LiveHeld(h, m) == {e \in h : m.heap[e.ptr[1]] # 0}
LivePtrs(S, m) == {s \in S : m.heap[s[1]] # 0}

\* whether an allocate(1) on p now continues the run that follows a reserve(k) on p
InRun(p) ==
    /\ last.pool = p
    /\ last.op = "reserve" \/ (last.op = "allocate" /\ last.n = 1 /\ last.run > 0)
    /\ last.run < last.k

Store(p, s) ==
    /\ blocks' = [blocks EXCEPT ![p] = s.blocks]
    /\ large_allocs' = [large_allocs EXCEPT ![p] = s.large_allocs]
    /\ free_list' = [free_list EXCEPT ![p] = s.free_list]
    /\ total_slots' = [total_slots EXCEPT ![p] = s.total_slots]
    /\ used_slots' = [used_slots EXCEPT ![p] = s.used_slots]

SetMem(m) == heap' = m.heap /\ link' = m.link /\ cells' = cells

\* ------------------------------------------------------------- actions
Start ==
    /\ blocks = [p \in Pools |-> <<>>]
    /\ large_allocs = [p \in Pools |-> <<>>]
    /\ free_list = [p \in Pools |-> NULL]
    /\ total_slots = [p \in Pools |-> 0]
    /\ used_slots = [p \in Pools |-> 0]
    /\ heap = [a \in Addr \cup TwinAddr |-> 0]
    /\ link = [a \in Addr \cup TwinAddr |-> <<>>]
    /\ cells = [a \in Addr \cup TwinAddr |-> <<>>]
    /\ alive = [p \in Pools |-> FALSE]
    /\ held = {}
    /\ outLarge = [p \in Pools |-> {}]
    /\ everLarge = {}
    /\ misuse = [p \in Pools |-> FALSE]
    /\ last = Call("none", 0, 0, NULL, 0, 0, 0, 0, "none", 0)

Init == Start /\ tracking = FALSE
InitTracking == Start /\ tracking = TRUE

\* PoolAllocator<T> p(initial_capacity)
Construct(p, cap) ==
    /\ ~alive[p]
    /\ \E raw \in (IF cap > 0 THEN FreeAddrs(Mem) ELSE {0}) :
         LET r == ctor(Mem, cap, raw, TRUE)
         IN /\ ~r.threw
            /\ Store(p, r.s)
            /\ SetMem(r.m)
    /\ alive' = [alive EXCEPT ![p] = TRUE]
    /\ misuse' = [misuse EXCEPT ![p] = FALSE]
    /\ last' = Call("ctor", p, 0, NULL, 0, 0, 0, 0, "none", 0)
    /\ UNCHANGED <<tracking, held, outLarge, everLarge>>

\* p.allocate(n)
Allocate(p, n) ==
    /\ alive[p]
    /\ \E raw \in (IF CallsMalloc(Self(p), n) THEN FreeAddrs(Mem) ELSE {0}) :
         LET r == allocate(Self(p), Mem, n, raw, TRUE)
         IN /\ ~r.threw
            /\ Store(p, r.s)
            /\ SetMem(r.m)
            /\ held' = IF n = 1 THEN held \cup {[ptr |-> r.ret, by |-> p]} ELSE held
            /\ outLarge' = IF n > 1 THEN [outLarge EXCEPT ![p] = @ \cup {r.ret}]
                           ELSE outLarge
            /\ everLarge' = IF tracking /\ n > 1 THEN everLarge \cup {r.ret}
                            ELSE everLarge
            /\ last' = IF n = 1 /\ InRun(p)
                       THEN Call("allocate", p, 0, r.ret, n, 0, last.k, last.run + 1,
                                 "none", 0)
                       ELSE IF n = 1 /\ Prev(p) # "none"
                       THEN Call("allocate", p, 0, r.ret, n, last.by, 0, 0, Prev(p),
                                 last.freed)
                       ELSE Call("allocate", p, 0, r.ret, n, 0, 0, 0, "none", 0)
    /\ UNCHANGED <<tracking, alive, misuse>>

\* p.deallocate(ptr, n)
Deallocate(p, ptr, n) ==
    /\ alive[p]
    /\ LET r == deallocate(Self(p), Mem, ptr, n)
           single == n = 1 /\ ptr # NULL
           mine == {h \in held : h.ptr = ptr}
       IN /\ Store(p, r.s)
          /\ SetMem(r.m)
          /\ held' = IF single THEN held \ mine ELSE held
          /\ misuse' = IF single /\ mine = {} THEN [misuse EXCEPT ![p] = TRUE] ELSE misuse
          /\ outLarge' = [q \in Pools |-> LivePtrs(outLarge[q], r.m)]
          /\ last' = Call("deallocate", p, 0, ptr, n,
                          IF single /\ mine # {} THEN (CHOOSE h \in mine : TRUE).by ELSE 0,
                          0, 0, "none", Freed(r.m))
    /\ UNCHANGED <<tracking, alive, everLarge>>

\* p.reserve(new_cap)
Reserve(p, new_cap) ==
    /\ alive[p]
    /\ \E raw \in (IF new_cap > total_slots[p] THEN FreeAddrs(Mem) ELSE {0}) :
         LET r == reserve(Self(p), Mem, new_cap, raw, TRUE)
         IN /\ ~r.threw
            /\ Store(p, r.s)
            /\ SetMem(r.m)
    /\ last' = Call("reserve", p, 0, NULL, 0, 0, new_cap, 0, "none", 0)
    /\ UNCHANGED <<tracking, alive, held, outLarge, everLarge, misuse>>

\* what release_all on p does to the object, the heap and the history
Released(p, op) ==
    LET r == release_all(Self(p), Mem)
    IN /\ Store(p, r.s)
       /\ SetMem(r.m)
       /\ held' = LiveHeld(held, r.m)
       /\ outLarge' = [q \in Pools |-> LivePtrs(outLarge[q], r.m)]
       /\ misuse' = [misuse EXCEPT ![p] = FALSE]
       /\ last' = Call(op, p, 0, NULL, 0, 0, 0, 0, "none", Freed(r.m))
       /\ UNCHANGED <<tracking, everLarge>>

\* p.release_all()
ReleaseAll(p) ==
    /\ alive[p]
    /\ Released(p, "release_all")
    /\ UNCHANGED alive

\* ~PoolAllocator()
Destroy(p) ==
    /\ alive[p]
    /\ Released(p, "dtor")
    /\ alive' = [alive EXCEPT ![p] = FALSE]

\* PoolAllocator<T> dst(src)
CopyConstruct(dst, src) ==
    /\ ~alive[dst]
    /\ alive[src]
    /\ Store(dst, copy_ctor(Self(src)))
    /\ alive' = [alive EXCEPT ![dst] = TRUE]
    /\ misuse' = [misuse EXCEPT ![dst] = FALSE]
    /\ last' = Call("copy", dst, src, NULL, 0, 0, 0, 0, "none", 0)
    /\ UNCHANGED <<tracking, heap, link, cells, held, outLarge, everLarge>>

\* PoolAllocator<T> dst(std::move(src))
MoveConstruct(dst, src) ==
    /\ ~alive[dst]
    /\ alive[src]
    /\ LET r == move_ctor(Self(src))
       IN /\ blocks' = [blocks EXCEPT ![dst] = r.self.blocks, ![src] = r.other.blocks]
          /\ large_allocs' = [large_allocs EXCEPT ![dst] = r.self.large_allocs,
                                                  ![src] = r.other.large_allocs]
          /\ free_list' = [free_list EXCEPT ![dst] = r.self.free_list,
                                            ![src] = r.other.free_list]
          /\ total_slots' = [total_slots EXCEPT ![dst] = r.self.total_slots,
                                                ![src] = r.other.total_slots]
          /\ used_slots' = [used_slots EXCEPT ![dst] = r.self.used_slots,
                                              ![src] = r.other.used_slots]
    /\ alive' = [alive EXCEPT ![dst] = TRUE]
    /\ misuse' = [misuse EXCEPT ![dst] = misuse[src], ![src] = FALSE]
    /\ last' = Call("move", dst, src, NULL, 0, 0, 0, 0, "none", 0)
    /\ UNCHANGED <<tracking, heap, link, cells, held, outLarge, everLarge>>

\* p.allocate(n) that finds no memory: malloc returns a null pointer, or push_back
\* cannot grow the vector
AllocateThrows(p, n) ==
    /\ alive[p]
    /\ CallsMalloc(Self(p), n)
    /\ \E raw \in {0} \cup FreeAddrs(Mem) :
         LET r == allocate(Self(p), Mem, n, raw, FALSE)
         IN /\ Store(p, r.s)
            /\ SetMem(r.m)
            /\ last' = [Call("allocate", p, 0, r.ret, n, 0, 0, 0, "none", 0)
                          EXCEPT !.threw = r.threw]
    /\ UNCHANGED <<tracking, alive, held, outLarge, everLarge, misuse>>

\* p.reserve(new_cap) that finds no memory
ReserveThrows(p, new_cap) ==
    /\ alive[p]
    /\ new_cap > total_slots[p]
    /\ \E raw \in {0} \cup FreeAddrs(Mem) :
         LET r == reserve(Self(p), Mem, new_cap, raw, FALSE)
         IN /\ Store(p, r.s)
            /\ SetMem(r.m)
            /\ last' = [Call("reserve", p, 0, NULL, 0, 0, new_cap, 0, "none", 0)
                          EXCEPT !.threw = r.threw]
    /\ UNCHANGED <<tracking, alive, held, outLarge, everLarge, misuse>>

\* ------------------------------------------------------------- callers
\* a caller returns a slot it holds through the pool that owns the slot's block
DeallocateHeld(p) ==
    \E s \in HeldIn(p) : Deallocate(p, s, 1)

\* a caller returns the slot it has just returned once more (once per pool object)
DeallocateStale(p) ==
    /\ ~misuse[p]
    /\ last.op = "deallocate" /\ last.pool = p /\ last.n = 1
    /\ last.ptr # NULL /\ last.ptr \notin HeldPtrs
    /\ Deallocate(p, last.ptr, 1)

\* a caller returns a region address with a count other than 1
DeallocateLarge(p) ==
    \E a \in Addr, n \in LargeNs : Deallocate(p, <<a, 0>>, n)

DeallocateNull(p) ==
    \E n \in {0, 1, 2} : Deallocate(p, NULL, n)

\* at most max slots are out; the counter of a pool that was handed a slot twice has
\* wrapped, and is let through
AllocateSlot(p, max) ==
    /\ Cardinality(held) < max
    /\ used_slots[p] < max \/ used_slots[p] = SizeMod - 1
    /\ Allocate(p, 1)

AllocateLarge(p) == \E n \in 2..MaxN : Allocate(p, n)
AllocateNone(p) == Allocate(p, 0)

\* pointers in address order
PtrLeq(s, u) == s[1] < u[1] \/ (s[1] = u[1] /\ s[2] <= u[2])
\* the lowest and the highest of a set of pointers
Ends(S) == {s \in S : (\A u \in S : PtrLeq(s, u)) \/ (\A u \in S : PtrLeq(u, s))}

\* a caller that holds many slots returns the lowest or the highest of them
DeallocateEnd(p) ==
    \E s \in Ends(HeldIn(p)) : Deallocate(p, s, 1)

\* a caller returns the slot it has just been handed
DeallocateLast(p) ==
    /\ last.op = "allocate" /\ last.pool = p /\ last.n = 1
    /\ last.ptr \in HeldIn(p)
    /\ Deallocate(p, last.ptr, 1)

\* a caller returns a large region it was handed, with the count it asked for
DeallocateRegistered(p) ==
    \E s \in outLarge[p] : Deallocate(p, s, heap[s[1]] \div SizeofT)

\* one pool, every call on it
Next ==
    \/ \E cap \in Caps \cup {0} : Construct(1, cap)
    \/ AllocateSlot(1, MaxOut)
    \/ AllocateLarge(1)
    \/ AllocateNone(1)
    \/ DeallocateHeld(1)
    \/ DeallocateStale(1)
    \/ DeallocateLarge(1)
    \/ DeallocateNull(1)
    \/ \E k \in Caps : Reserve(1, k)
    \/ ReleaseAll(1)
    \/ Destroy(1)

Spec == Init /\ [][Next]_vars

\* two pools, one copied or moved from the other
NextPair ==
    \/ \E p \in Pools, cap \in {0, ScenarioCap} : Construct(p, cap)
    \/ \E p \in Pools : AllocateSlot(p, MaxPairOut)
    \/ \E p \in Pools : AllocateLarge(p)
    \/ \E p \in Pools : DeallocateHeld(p)
    \/ \E p \in Pools : DeallocateLarge(p)
    \/ \E p \in Pools : ReleaseAll(p)
    \/ \E p \in Pools : Destroy(p)
    \/ \E dst \in Pools, src \in Pools : CopyConstruct(dst, src)
    \/ \E dst \in Pools, src \in Pools : MoveConstruct(dst, src)

SpecPair == Init /\ [][NextPair]_vars

\* one pool whose callers hold many slots
NextBulk ==
    \/ Construct(1, 0)
    \/ AllocateSlot(1, MaxBulkOut)
    \/ Allocate(1, 2)
    \/ DeallocateLast(1)
    \/ DeallocateRegistered(1)
    \/ \E k \in Caps : Reserve(1, k)

SpecBulk == InitTracking /\ [][NextBulk]_vars

\* one pool whose callers return their slots in any order
NextFree ==
    \/ \E cap \in {0, ScenarioCap} : Construct(1, cap)
    \/ AllocateSlot(1, MaxFreeOut)
    \/ DeallocateHeld(1)
    \/ DeallocateStale(1)
    \/ \E k \in Caps : Reserve(1, k)
    \/ ReleaseAll(1)

SpecFree == Init /\ [][NextFree]_vars

\* two pools that are given the same calls, pool 1 first; the system allocator serves
\* pool 1 from Addr and pool 2 from TwinAddr
Store2(s1, s2) ==
    /\ blocks' = [blocks EXCEPT ![1] = s1.blocks, ![2] = s2.blocks]
    /\ large_allocs' = [large_allocs EXCEPT ![1] = s1.large_allocs,
                                            ![2] = s2.large_allocs]
    /\ free_list' = [free_list EXCEPT ![1] = s1.free_list, ![2] = s2.free_list]
    /\ total_slots' = [total_slots EXCEPT ![1] = s1.total_slots, ![2] = s2.total_slots]
    /\ used_slots' = [used_slots EXCEPT ![1] = s1.used_slots, ![2] = s2.used_slots]

\* the addresses malloc can return to one pool of the pair when the call reaches it
TwinRaw(calls, addrs) == IF calls THEN {a \in addrs : heap[a] = 0} ELSE {0}

\* the position of the block of slot s in p's block list, and the slot of pool 2 at the
\* same position and index as slot s of pool 1
Ord(p, s) == Find(blocks[p], <<s[1], 0>>)
Twin(s) == <<blocks[2][Ord(1, s)][1], s[2]>>

TwinConstruct(cap) ==
    /\ ~alive[1] /\ ~alive[2]
    /\ \E raw1 \in TwinRaw(cap > 0, Addr), raw2 \in TwinRaw(cap > 0, TwinAddr) :
         LET r1 == ctor(Mem, cap, raw1, TRUE)
             r2 == ctor(r1.m, cap, raw2, TRUE)
         IN /\ ~r1.threw /\ ~r2.threw
            /\ Store2(r1.s, r2.s)
            /\ SetMem(r2.m)
    /\ alive' = [p \in Pools |-> TRUE]
    /\ misuse' = [p \in Pools |-> FALSE]
    /\ last' = [Call("ctor", 1, 0, NULL, 0, 0, 0, 0, "none", 0)
                  EXCEPT !.blk = IF cap > 0 THEN 1 ELSE 0]
    /\ UNCHANGED <<tracking, held, outLarge, everLarge>>

\* allocate(1) on both; blk is the position of the block added last and nth the number
\* of allocate(1) calls since, while no deallocate or release_all came between
TwinAllocate ==
    /\ alive[1] /\ alive[2]
    /\ Cardinality(HeldIn(1)) < MaxTwinOut
    /\ \E raw1 \in TwinRaw(CallsMalloc(Self(1), 1), Addr),
          raw2 \in TwinRaw(CallsMalloc(Self(2), 1), TwinAddr) :
         LET r1 == allocate(Self(1), Mem, 1, raw1, TRUE)
             r2 == allocate(Self(2), r1.m, 1, raw2, TRUE)
         IN /\ ~r1.threw /\ ~r2.threw
            /\ Store2(r1.s, r2.s)
            /\ SetMem(r2.m)
            /\ held' = held \cup {[ptr |-> r1.ret, by |-> 1], [ptr |-> r2.ret, by |-> 2]}
            /\ last' = [Call("allocate", 1, 0, r1.ret, 1, 0, 0, 0, "none", 0)
                          EXCEPT !.twin = r2.ret,
                                 !.blk = IF CallsMalloc(Self(1), 1)
                                         THEN Len(blocks[1]) + 1 ELSE last.blk,
                                 !.nth = IF CallsMalloc(Self(1), 1) THEN 1
                                         ELSE IF last.blk # 0 THEN last.nth + 1 ELSE 0]
    /\ UNCHANGED <<tracking, alive, outLarge, everLarge, misuse>>

\* after an allocate(1), the callers return the slots they have just been handed, or
\* the lowest slot they hold of pool 1 and the slot of pool 2 that goes with it
TwinDeallocate ==
    /\ alive[1] /\ alive[2]
    /\ last.op = "allocate"
    /\ \E s \in {h \in HeldIn(1) : h = last.ptr \/ (\A u \in HeldIn(1) : PtrLeq(h, u))} :
         /\ Ord(1, s) <= Len(blocks[2])
         /\ Twin(s) \in HeldIn(2)
         /\ LET r1 == deallocate(Self(1), Mem, s, 1)
                r2 == deallocate(Self(2), r1.m, Twin(s), 1)
            IN /\ Store2(r1.s, r2.s)
               /\ SetMem(r2.m)
               /\ held' = {h \in held : h.ptr \notin {s, Twin(s)}}
               /\ last' = [Call("deallocate", 1, 0, s, 1, 1, 0, 0, "none", 0)
                             EXCEPT !.twin = Twin(s)]
    /\ UNCHANGED <<tracking, alive, outLarge, everLarge, misuse>>

TwinReserve(new_cap) ==
    /\ alive[1] /\ alive[2]
    /\ \E raw1 \in TwinRaw(new_cap > total_slots[1], Addr),
          raw2 \in TwinRaw(new_cap > total_slots[2], TwinAddr) :
         LET r1 == reserve(Self(1), Mem, new_cap, raw1, TRUE)
             r2 == reserve(Self(2), r1.m, new_cap, raw2, TRUE)
         IN /\ ~r1.threw /\ ~r2.threw
            /\ Store2(r1.s, r2.s)
            /\ SetMem(r2.m)
    /\ last' = [Call("reserve", 1, 0, NULL, 0, 0, new_cap, 0, "none", 0)
                  EXCEPT !.blk = IF new_cap > total_slots[1]
                                 THEN Len(blocks[1]) + 1 ELSE last.blk,
                         !.nth = IF new_cap > total_slots[1] THEN 0 ELSE last.nth]
    /\ UNCHANGED <<tracking, alive, held, outLarge, everLarge, misuse>>

TwinReleaseAll ==
    /\ alive[1] /\ alive[2]
    /\ LET r1 == release_all(Self(1), Mem)
           r2 == release_all(Self(2), r1.m)
       IN /\ Store2(r1.s, r2.s)
          /\ SetMem(r2.m)
          /\ held' = LiveHeld(held, r2.m)
          /\ last' = Call("release_all", 1, 0, NULL, 0, 0, 0, 0, "none", Freed(r2.m))
    /\ UNCHANGED <<tracking, alive, outLarge, everLarge, misuse>>

NextTwin ==
    \/ \E cap \in {0, ScenarioCap} : TwinConstruct(cap)
    \/ TwinAllocate
    \/ TwinDeallocate
    \/ \E k \in Caps : TwinReserve(k)
    \/ TwinReleaseAll

SpecTwin == Init /\ [][NextTwin]_vars

\* two pools, every call on them, with a system allocator that can run out of memory
NextOwn ==
    \/ \E p \in Pools, cap \in {0, ScenarioCap} : Construct(p, cap)
    \/ \E p \in Pools : AllocateSlot(p, MaxPairOut)
    \/ \E p \in Pools : AllocateLarge(p)
    \/ \E p \in Pools, n \in 1..MaxN : AllocateThrows(p, n)
    \/ \E p \in Pools : DeallocateHeld(p)
    \/ \E p \in Pools : DeallocateLarge(p)
    \/ \E p \in Pools, k \in Caps : Reserve(p, k)
    \/ \E p \in Pools, k \in Caps : ReserveThrows(p, k)
    \/ \E p \in Pools : ReleaseAll(p)
    \/ \E p \in Pools : Destroy(p)
    \/ \E dst \in Pools, src \in Pools : CopyConstruct(dst, src)
    \/ \E dst \in Pools, src \in Pools : MoveConstruct(dst, src)

SpecOwn == Init /\ [][NextOwn]_vars

\* ------------------------------------------------------------- any element size
\* The members once more, for an element type of size bytes and with the contents of
\* the blocks kept cell by cell.  A link is sizeof(Slot) bytes, two cells: the low half
\* of the pointer, then the high half, which is the same for every address in one
\* region.

\* the element sizes of the demonstration: pool 1 as pool10 (PairType), pool 2 as
\* pool10i (int)
Sizeof(p) == IF p = 1 THEN SizeofT ELSE SizeofInt

Cell == SizeofInt
\* the cells of one link
LinkCells == SizeofSlot \div Cell
\* a pointer value that is neither null nor the address of a slot
WILD == <<0, 1>>
\* a cell nothing was stored in; the two halves of the pointer v
Uninit == [half |-> "none", of |-> NULL]
Lo(v) == [half |-> "lo", of |-> v]
Hi(v) == [half |-> "hi", of |-> <<v[1], 0>>]

Bytes == [heap |-> heap, cells |-> cells]

\* the first cell of element i of a block: base + i * sizeof(T)
FirstCell(s, size) == (s[2] * size) \div Cell + 1

\* s->next = v: stores sizeof(Slot) bytes at the address of slot s, wherever they fall
store_next(c, s, size, v) ==
    LET u == FirstCell(s, size)
        r == c[s[1]]
    IN [c EXCEPT ![s[1]] =
           [w \in 1..Max(Len(r), u + LinkCells - 1) |->
               IF w = u THEN Lo(v)
               ELSE IF w = u + LinkCells - 1 THEN Hi(v)
               ELSE IF w <= Len(r) THEN r[w] ELSE Uninit]]

\* s->next: loads sizeof(Slot) bytes at the address of slot s.  Two halves of different
\* pointers make a wild pointer; a load through a wild pointer, from a freed region or
\* of bytes nothing was stored in is undefined, and junk is what it yields
load_next(c, s, size, junk) ==
    LET u == FirstCell(s, size)
        r == c[s[1]]
    IN IF s[1] = 0 \/ u + LinkCells - 1 > Len(r) THEN junk
       ELSE IF r[u] = Uninit \/ r[u + LinkCells - 1] = Uninit THEN junk
       ELSE IF r[u].half = "lo" /\ r[u + LinkCells - 1] = Hi(r[u].of) THEN r[u].of
       ELSE WILD

\* the loop of expand: slots i .. block_slots - 1 are pushed, each on the head
RECURSIVE push_each(_, _, _, _, _, _)
push_each(c, head, raw, size, i, block_slots) ==
    IF i >= block_slots THEN [cells |-> c, free_list |-> head]
    ELSE push_each(store_next(c, <<raw, i>>, size, head), <<raw, i>>, raw, size,
                   i + 1, block_slots)

\* expand(count) for elements of size bytes; raw is what malloc returns
expand_sized(s, b, count, raw, size) ==
    LET block_slots == Max(count, default_block_size)
        bytes == (block_slots * size) % SizeMod
        fresh == [b.cells EXCEPT ![raw] = [w \in 1..(bytes \div Cell) |-> Uninit]]
        pushed == push_each(fresh, s.free_list, raw, size, 0, block_slots)
    IN [s |-> [s EXCEPT !.blocks = Append(@, <<raw, 0>>),
                        !.free_list = pushed.free_list,
                        !.total_slots = (@ + block_slots) % SizeMod],
        m |-> [heap |-> [b.heap EXCEPT ![raw] = bytes], cells |-> pushed.cells]]

\* allocate(1) for elements of size bytes
allocate_sized(s, b, raw, size, junk) ==
    LET e == IF s.free_list # NULL THEN [s |-> s, m |-> b]
             ELSE expand_sized(s, b, default_block_size, raw, size)
    IN [s |-> [e.s EXCEPT !.free_list = load_next(e.m.cells, e.s.free_list, size, junk),
                          !.used_slots = (@ + 1) % SizeMod],
        m |-> e.m,
        ret |-> e.s.free_list]

\* deallocate(ptr, 1) for elements of size bytes
deallocate_sized(s, b, ptr, size) ==
    [s |-> [s EXCEPT !.free_list = ptr, !.used_slots = (@ - 1) % SizeMod],
     m |-> [b EXCEPT !.cells = store_next(@, ptr, size, s.free_list)]]

\* reserve(new_cap) for elements of size bytes
reserve_sized(s, b, new_cap, raw, size) ==
    IF new_cap > s.total_slots
    THEN expand_sized(s, b, new_cap - s.total_slots, raw, size)
    ELSE [s |-> s, m |-> b]

\* PoolAllocator(initial_capacity) for elements of size bytes
ctor_sized(b, initial_capacity, raw, size) ==
    IF initial_capacity > 0 THEN reserve_sized(EmptyPool, b, initial_capacity, raw, size)
    ELSE [s |-> EmptyPool, m |-> b]

\* release_all(): every region of s is freed, and with it what it held
release_all_sized(s, b) ==
    LET gone == {r[1] : r \in Range(s.blocks) \cup Range(s.large_allocs)}
    IN [s |-> EmptyPool,
        m |-> [heap |-> [a \in DOMAIN b.heap |-> IF a \in gone THEN 0 ELSE b.heap[a]],
               cells |-> [a \in DOMAIN b.cells |->
                             IF a \in gone THEN <<>> ELSE b.cells[a]]]]

SetBytes(b) == heap' = b.heap /\ cells' = b.cells /\ link' = link

\* the slots callers hold that pool p handed out
HeldOf(p) == {h \in held : h.by = p}

LayoutConstruct(p, cap) ==
    /\ ~alive[p]
    /\ \E raw \in (IF cap > 0 THEN FreeAddrs(Mem) ELSE {0}) :
         LET r == ctor_sized(Bytes, cap, raw, Sizeof(p))
         IN Store(p, r.s) /\ SetBytes(r.m)
    /\ alive' = [alive EXCEPT ![p] = TRUE]
    /\ last' = [Call("ctor", p, 0, NULL, 0, 0, 0, 0, "none", 0)
                  EXCEPT !.blk = IF cap > 0 THEN 1 ELSE 0]
    /\ UNCHANGED <<tracking, held, outLarge, everLarge, misuse>>

\* p.allocate(1); a program that a wild pointer has stopped takes no further step
LayoutAllocate(p) ==
    /\ alive[p]
    /\ Cardinality(HeldOf(p)) < MaxLayoutOut
    /\ \E raw \in (IF free_list[p] = NULL THEN FreeAddrs(Mem) ELSE {0}),
          junk \in {NULL, WILD} :
         LET r == allocate_sized(Self(p), Bytes, raw, Sizeof(p), junk)
         IN /\ Store(p, r.s) /\ SetBytes(r.m)
            /\ held' = held \cup {[ptr |-> r.ret, by |-> p]}
            /\ last' = [Call("allocate", p, 0, r.ret, 1, 0, 0, 0, "none", 0)
                          EXCEPT !.blk = IF free_list[p] = NULL
                                         THEN Len(blocks[p]) + 1 ELSE 0]
    /\ UNCHANGED <<tracking, alive, outLarge, everLarge, misuse>>

\* a caller returns a slot it holds
LayoutDeallocate(p) ==
    /\ alive[p]
    /\ \E h \in HeldOf(p) :
         /\ h.ptr[1] # 0
         /\ LET r == deallocate_sized(Self(p), Bytes, h.ptr, Sizeof(p))
            IN Store(p, r.s) /\ SetBytes(r.m)
         /\ held' = held \ {h}
         /\ last' = Call("deallocate", p, 0, h.ptr, 1, p, 0, 0, "none", 0)
    /\ UNCHANGED <<tracking, alive, outLarge, everLarge, misuse>>

LayoutReserve(p, new_cap) ==
    /\ alive[p]
    /\ \E raw \in (IF new_cap > total_slots[p] THEN FreeAddrs(Mem) ELSE {0}) :
         LET r == reserve_sized(Self(p), Bytes, new_cap, raw, Sizeof(p))
         IN Store(p, r.s) /\ SetBytes(r.m)
    /\ last' = [Call("reserve", p, 0, NULL, 0, 0, new_cap, 0, "none", 0)
                  EXCEPT !.blk = IF new_cap > total_slots[p]
                                 THEN Len(blocks[p]) + 1 ELSE 0]
    /\ UNCHANGED <<tracking, alive, held, outLarge, everLarge, misuse>>

LayoutReleaseAll(p) ==
    /\ alive[p]
    /\ LET r == release_all_sized(Self(p), Bytes)
       IN /\ Store(p, r.s) /\ SetBytes(r.m)
          /\ last' = Call("release_all", p, 0, NULL, 0, 0, 0, 0, "none", Freed(r.m))
    /\ held' = held \ HeldOf(p)
    /\ UNCHANGED <<tracking, alive, outLarge, everLarge, misuse>>

\* the two pools of the demonstration, each with its own element type
NextLayout ==
    \/ \E p \in Pools, cap \in {0, ScenarioCap} : LayoutConstruct(p, cap)
    \/ \E p \in Pools : LayoutAllocate(p)
    \/ \E p \in Pools : LayoutDeallocate(p)
    \/ \E p \in Pools, k \in Caps : LayoutReserve(p, k)
    \/ \E p \in Pools : LayoutReleaseAll(p)

SpecLayout == Init /\ [][NextLayout]_vars

\* an n whose product with the element size does not fit size_type
HugeN == SizeMod \div SizeofT + 1

AllocateHuge(p) == Allocate(p, HugeN)

\* one pool, with a system allocator that can run out of memory
NextOom ==
    \/ \E cap \in {0, ScenarioCap} : Construct(1, cap)
    \/ AllocateSlot(1, MaxOut)
    \/ AllocateLarge(1)
    \/ AllocateHuge(1)
    \/ \E n \in 1..MaxN : AllocateThrows(1, n)
    \/ DeallocateHeld(1)
    \/ DeallocateLarge(1)
    \/ \E k \in Caps : Reserve(1, k)
    \/ \E k \in Caps : ReserveThrows(1, k)
    \/ ReleaseAll(1)

SpecOom == Init /\ [][NextOom]_vars

\* the concrete scenario: a pool of initial capacity ScenarioCap, one allocate(1) more
\* than that, then every slot returned
ScenarioAllocs == ScenarioCap + 1

Stage ==
    IF ~alive[1] THEN "start"
    ELSE IF last.op = "ctor" \/ (last.op = "allocate" /\ Cardinality(held) < ScenarioAllocs)
    THEN "allocating"
    ELSE IF held # {} THEN "returning"
    ELSE "done"

NextScenario ==
    \/ Stage = "start" /\ Construct(1, ScenarioCap)
    \/ Stage = "allocating" /\ Allocate(1, 1)
    \/ Stage = "returning" /\ DeallocateEnd(1)

SpecScenario == Init /\ [][NextScenario]_vars

\* ------------------------------------------------------------- properties
\* the step is the call last' records
Called(op) == last'.op = op /\ last' # last

\* the members of pool p after the step
SelfAfter(p) == [blocks |-> blocks'[p], large_allocs |-> large_allocs'[p],
                 free_list |-> free_list'[p], total_slots |-> total_slots'[p],
                 used_slots |-> used_slots'[p]]

\* the step leaves the single-slot machinery of p as it is
SlotsUnchanged(p) ==
    /\ blocks'[p] = blocks[p]
    /\ free_list'[p] = free_list[p]
    /\ total_slots'[p] = total_slots[p]
    /\ used_slots'[p] = used_slots[p]
    /\ \A a \in {b[1] : b \in Range(blocks[p])} : link'[a] = link[a] /\ heap'[a] = heap[a]

\* the slots met from s by following next, at most fuel of them; the walk ends at a
\* slot that holds no link (a slot of a region that was freed)
RECURSIVE Chain(_, _, _)
Chain(m, s, fuel) ==
    IF s = NULL \/ fuel = 0 THEN <<>>
    ELSE IF fuel = 1 \/ s[2] + 1 > Len(m.link[s[1]]) THEN <<s>>
    ELSE <<s>> \o Chain(m, Next_(m, s), fuel - 1)

\* the free-list of p as a sequence from its head, followed for at most one step more
\* than the pool has slots (a longer walk means the list runs in a circle)
FreeSeq(p) == Chain(Mem, free_list[p], total_slots[p] + 1)
FreeSeqAfter(p) ==
    Chain([heap |-> heap', link |-> link'], free_list'[p], total_slots'[p] + 1)

\* the slots of the block at blk, the highest index first
Descending(blk, slots) == [i \in 1..slots |-> <<blk[1], slots - i>>]

\* the number of slots of the block at blk
SlotsOf(blk) == heap[blk[1]] \div SizeofT

\* the addresses of the regions p owns
Owned(p) == {b[1] : b \in Range(blocks[p]) \cup Range(large_allocs[p])}

\* C1, as stated: whatever previously returned slot addresses are passed to
\* deallocate(p, 1), used_slots never exceeds total_slots and never wraps below zero
\* (a wrapped counter is SizeMod - 1, above every total_slots the pool reaches).
C1_AnyReturnedSlot ==
    \A p \in Pools : used_slots[p] <= total_slots[p]

\* C1, amended: as long as every deallocate(p, 1) was passed a slot that was outstanding
\* (returned by allocate(1) and not deallocated since), used_slots never exceeds
\* total_slots and never wraps below zero.
C1_OutstandingSlots ==
    \A p \in Pools : ~misuse[p] => used_slots[p] <= total_slots[p]

\* a slot was handed out and returned, and the counter is back at zero
C1_Witness ==
    /\ last.op = "deallocate" /\ last.n = 1 /\ last.ptr # NULL /\ last.by = last.pool
    /\ ~misuse[last.pool]
    /\ used_slots[last.pool] = 0 /\ total_slots[last.pool] > 0

\* C2, as stated: a pool of initial capacity 10 serves 10 allocate(1) calls from one
\* block, the 11th adds exactly one block of at least 16 slots, and after the 11 slots
\* are returned used_slots is 0 and total_slots is at least 26.
C2_SecondBlock ==
    /\ (Stage = "allocating" => Len(blocks[1]) = 1)
    /\ (Stage \in {"returning", "done"} =>
            /\ Len(blocks[1]) = 2
            /\ heap[blocks[1][2][1]] >= default_block_size * SizeofT)
    /\ (Stage = "done" =>
            /\ used_slots[1] = 0
            /\ total_slots[1] >= ScenarioCap + default_block_size)

\* C2, amended: a pool of initial capacity 10 holds one block of 16 slots, serves all 11
\* allocate(1) calls from it without a second block, and after the 11 slots are returned
\* used_slots is 0 and total_slots is 16.
C2_OneBlock ==
    /\ (Stage # "start" =>
            /\ Len(blocks[1]) = 1
            /\ heap[blocks[1][1][1]] = default_block_size * SizeofT
            /\ total_slots[1] = default_block_size
            /\ used_slots[1] = Cardinality(held))
    /\ (Stage \in {"returning", "done"} /\ last.op = "allocate" =>
            Cardinality(held) = ScenarioAllocs)
    /\ (Stage = "done" => used_slots[1] = 0)

\* the 11 slots were handed out and have all been returned
C2_Witness ==
    Stage = "done" /\ last.op = "deallocate" /\ used_slots[1] = 0

\* C3, as stated: in every pool state, the k consecutive allocate(1) calls that follow
\* reserve(k) leave the block list and total_slots as they were after reserve(k).
C3_AnyState ==
    [][Called("allocate") /\ last'.n = 1 /\ last'.run > 0 =>
          /\ blocks'[last'.pool] = blocks[last'.pool]
          /\ total_slots'[last'.pool] = total_slots[last'.pool]]_vars

\* C3, amended: when reserve(k) is called with u slots in use, the first k - u
\* consecutive allocate(1) calls that follow it leave the block list and total_slots as
\* they were after reserve(k); with no slot in use, these are all k calls.
C3_FreeAfterReserve ==
    [][Called("allocate") /\ last'.n = 1 /\ last'.run > 0
          /\ used_slots[last'.pool] < last'.k =>
          /\ blocks'[last'.pool] = blocks[last'.pool]
          /\ total_slots'[last'.pool] = total_slots[last'.pool]]_vars

\* reserve(k) for a k above the default block size was called with no slot in use, and
\* the k-th allocate(1) after it has returned
C3_Witness ==
    /\ last.op = "allocate" /\ last.n = 1
    /\ last.k > default_block_size /\ last.run = last.k
    /\ used_slots[last.pool] = last.k

\* C4: when a slot that allocate(1) returned is passed to deallocate(p, 1), the
\* allocate(1) that follows immediately returns the same address and adds no block.
C4_Lifo ==
    [][/\ last.op = "deallocate" /\ last.n = 1 /\ last.ptr # NULL
       /\ Called("allocate") /\ last'.n = 1 /\ last'.pool = last.pool
       => /\ last'.ptr = last.ptr
          /\ blocks'[last.pool] = blocks[last.pool]
          /\ total_slots'[last.pool] = total_slots[last.pool]]_vars

\* an allocate(1) came right after a deallocate(p, 1) of a slot the pool had handed out
C4_Witness ==
    /\ last.op = "allocate" /\ last.n = 1 /\ last.prev = "deallocate"
    /\ last.by = last.pool /\ last.ptr \in HeldPtrs

\* C5: release_all leaves the pool as a default-constructed one, with every region it
\* owned freed; a second release_all changes nothing; an allocate(1) that follows
\* allocates one block, giving total_slots = 16 and used_slots = 1.
C5_ReleaseAll ==
    [][/\ Called("release_all") =>
            /\ SelfAfter(last'.pool) = EmptyPool
            /\ \A a \in Owned(last'.pool) : heap'[a] = 0
       /\ last.op = "release_all" /\ last'.op = "release_all" /\ last'.pool = last.pool =>
            /\ SelfAfter(last.pool) = Self(last.pool)
            /\ heap' = heap /\ link' = link
       /\ last.op = "release_all" /\ Called("allocate") /\ last'.n = 1
          /\ last'.pool = last.pool =>
            /\ total_slots'[last.pool] = default_block_size
            /\ used_slots'[last.pool] = 1
            /\ Len(blocks'[last.pool]) = 1
            /\ large_allocs'[last.pool] = <<>>
            /\ heap'[blocks'[last.pool][1][1]] = default_block_size * SizeofT]_vars

\* release_all was called on a pool that owned two regions and freed them, and the
\* allocate(1) after it has returned
C5_Witness ==
    /\ last.op = "allocate" /\ last.n = 1
    /\ last.prev = "release_all" /\ last.freed >= 2
    /\ used_slots[last.pool] = 1

\* C6: right after a move construction the destination's block list, free-list (the
\* same slots in the same order), total_slots and used_slots are the source's before
\* it; a slot the source handed out can be deallocated through the destination, whose
\* next allocate(1) returns it.
C6_MoveTransfers ==
    [][/\ Called("move") =>
            /\ blocks'[last'.pool] = blocks[last'.from]
            /\ free_list'[last'.pool] = free_list[last'.from]
            /\ total_slots'[last'.pool] = total_slots[last'.from]
            /\ used_slots'[last'.pool] = used_slots[last'.from]
            /\ link' = link /\ heap' = heap
       /\ last.op = "deallocate" /\ last.n = 1 /\ last.by \notin {0, last.pool}
          /\ Called("allocate") /\ last'.n = 1 /\ last'.pool = last.pool =>
            /\ last'.ptr = last.ptr
            /\ blocks'[last.pool] = blocks[last.pool]]_vars

\* a slot handed out by the other pool was returned through this one, and the
\* allocate(1) after it has returned
C6_Witness ==
    /\ last.op = "allocate" /\ last.n = 1 /\ last.prev = "deallocate"
    /\ last.by \notin {0, last.pool}
    /\ used_slots[last.pool] > 0

\* C7, as stated: after a move construction the source is in the empty state, whatever
\* it held before: no block, an empty free-list, no large-allocation record, and
\* total_slots = used_slots = 0.
C7_SourceEmpty ==
    last.op = "move" => Self(last.from) = EmptyPool

\* C8: a copy construction yields an empty pool and leaves the source and the heap as
\* they were; a later call on one pool leaves the members of the other, and the regions
\* the other owns, as they were.
C8_CopyIndependent ==
    [][/\ Called("copy") =>
            /\ SelfAfter(last'.pool) = EmptyPool
            /\ SelfAfter(last'.from) = Self(last'.from)
            /\ heap' = heap /\ link' = link
       /\ last' # last /\ last'.op \notin {"copy", "move"} =>
            \A q \in Pools \ {last'.pool} :
                /\ SelfAfter(q) = Self(q)
                /\ \A a \in Owned(q) : heap'[a] = heap[a] /\ link'[a] = link[a]]_vars

\* a pool was copied from one that owns a block with a slot in use and a large region
C8_Witness ==
    /\ last.op = "copy"
    /\ used_slots[last.from] > 0 /\ large_allocs[last.from] # <<>>
    /\ Self(last.pool) = EmptyPool

\* C9: every pointer returned by allocate(n > 1) and not freed since is in the pool's
\* large_allocs exactly once; deallocate(p, n # 1) of a recorded pointer frees the
\* region and removes that one entry, the others staying.
C9_Registry ==
    /\ [](\A p \in Pools : \A x \in outLarge[p] : Count(large_allocs[p], x) = 1)
    /\ [][/\ Called("deallocate") /\ last'.n > 1
          /\ Count(large_allocs[last'.pool], last'.ptr) > 0
          => /\ heap'[last'.ptr[1]] = 0
             /\ \A a \in Addr \ {last'.ptr[1]} : heap'[a] = heap[a]
             /\ \A a \in Addr :
                  Count(large_allocs'[last'.pool], <<a, 0>>) =
                      Count(large_allocs[last'.pool], <<a, 0>>)
                        - (IF <<a, 0>> = last'.ptr THEN 1 ELSE 0)]_vars

\* a large region was freed while another one stays recorded
C9_Witness ==
    /\ last.op = "deallocate" /\ last.n > 1 /\ last.freed = 1
    /\ heap[last.ptr[1]] = 0
    /\ outLarge[last.pool] # {}
    /\ Range(large_allocs[last.pool]) = outLarge[last.pool]

\* C10, as stated: allocate(n) and deallocate(p, n) with n > 1 leave the block list, the
\* free-list, total_slots and used_slots as they were, and an address that
\* allocate(n > 1) returned is never returned by a later allocate(1).
C10_NeverReturned ==
    /\ [][(last' # last /\ last'.op \in {"allocate", "deallocate"} /\ last'.n > 1) =>
            SlotsUnchanged(last'.pool)]_vars
    /\ [](last.op = "allocate" /\ last.n = 1 => last.ptr \notin everLarge)

\* C10, amended: allocate(n) and deallocate(p, n) with n > 1 leave the block list, the
\* free-list, total_slots and used_slots as they were, and an address that
\* allocate(n > 1) returned is not returned by allocate(1) before the region is freed.
C10_NotWhileAllocated ==
    /\ [][(last' # last /\ last'.op \in {"allocate", "deallocate"} /\ last'.n > 1) =>
            SlotsUnchanged(last'.pool)]_vars
    /\ [](last.op = "allocate" /\ last.n = 1 =>
            \A p \in Pools : last.ptr \notin outLarge[p])

\* allocate(1) has returned a slot of a block at the address of a large region that was
\* freed, while another large region is allocated
C10_Witness ==
    /\ last.op = "allocate" /\ last.n = 1
    /\ <<last.ptr[1], 0>> \in everLarge
    /\ outLarge[last.pool] # {}

\* C11: deallocate(p, n) with n > 1 of a pointer that is not in large_allocs (one this
\* pool's n > 1 path never returned, or one that was deallocated already) changes
\* nothing: the pool's members and the heap are as before.
C11_UnknownIgnored ==
    [][Called("deallocate") /\ last'.n > 1 /\ last'.ptr # NULL
         /\ Count(large_allocs[last'.pool], last'.ptr) = 0
       => /\ SelfAfter(last'.pool) = Self(last'.pool)
          /\ heap' = heap /\ link' = link]_vars

\* deallocate(p, n > 1) was called with the address of a block the pool owns, while a
\* large region is recorded, and nothing was freed
C11_Witness ==
    /\ last.op = "deallocate" /\ last.n > 1 /\ last.freed = 0
    /\ last.ptr \in Range(blocks[last.pool])
    /\ heap[last.ptr[1]] # 0
    /\ large_allocs[last.pool] # <<>>

\* C12: when the system allocator fails during block growth (allocate(1), reserve) or
\* during allocate(n > 1), the call throws and the pool's members are what they were
\* before it: no block, no record, the same free-list and counters.
C12_FailureLeavesState ==
    [][/\ last' # last /\ last'.threw =>
            /\ last'.op \in {"allocate", "reserve"}
            /\ SelfAfter(last'.pool) = Self(last'.pool)
            /\ link' = link
       /\ (/\ last' # last /\ heap' = heap
           /\ \/ last'.op = "allocate" /\ CallsMalloc(Self(last'.pool), last'.n)
              \/ last'.op = "reserve" /\ last'.k > total_slots[last'.pool])
          => last'.threw]_vars

\* a reserve that had to grow a pool with a block and a slot in use has thrown
C12_Witness ==
    /\ last.op = "reserve" /\ last.threw
    /\ blocks[last.pool] # <<>> /\ used_slots[last.pool] > 0
    /\ last.k > total_slots[last.pool]

\* C13, as stated: for every n > 1 that size_type can represent, the region a
\* successful allocate(n) returns has at least n * sizeof(T) bytes.
C13_AtLeastProduct ==
    last.op = "allocate" /\ last.n > 1 /\ ~last.threw =>
        heap[last.ptr[1]] >= last.n * SizeofT

\* C14: reserve(c) with c <= total_slots changes nothing; with c > total_slots it adds
\* one block of max(c - total_slots, 16) slots, adds that many to total_slots, leaves
\* used_slots, and puts the new block's slots on the free-list ahead of the slots that
\* were free before.
C14_ReserveGrowth ==
    [][Called("reserve") /\ ~last'.threw =>
        LET p == last'.pool
            c == last'.k
            B == Max(c - total_slots[p], default_block_size)
            new == blocks'[p][Len(blocks[p]) + 1]
        IN IF c <= total_slots[p]
           THEN SelfAfter(p) = Self(p) /\ heap' = heap /\ link' = link
           ELSE /\ blocks'[p] = Append(blocks[p], new)
                /\ heap[new[1]] = 0 /\ heap'[new[1]] = B * SizeofT
                /\ \A a \in Addr \ {new[1]} : heap'[a] = heap[a]
                /\ total_slots'[p] = total_slots[p] + B
                /\ used_slots'[p] = used_slots[p]
                /\ large_allocs'[p] = large_allocs[p]
                /\ FreeSeqAfter(p) = Descending(new, B) \o FreeSeq(p)]_vars

\* reserve has added a second block to a pool that had slots in use and slots free
C14_Witness ==
    /\ last.op = "reserve" /\ ~last.threw
    /\ Len(blocks[last.pool]) = 2
    /\ total_slots[last.pool] = 2 * default_block_size
    /\ used_slots[last.pool] > 0 /\ used_slots[last.pool] < default_block_size
    /\ Len(FreeSeq(last.pool)) > default_block_size

\* what C15 says of one allocate(1) step on p
AllocateOneStep(p) ==
    LET ret == last'.ptr
        new == blocks'[p][Len(blocks[p]) + 1]
    IN /\ IF free_list[p] # NULL
          THEN /\ ret = free_list[p]
               /\ blocks'[p] = blocks[p]
               /\ total_slots'[p] = total_slots[p]
               /\ heap' = heap
          ELSE /\ blocks'[p] = Append(blocks[p], new)
               /\ heap[new[1]] = 0
               /\ heap'[new[1]] = default_block_size * SizeofT
               /\ \A a \in Addr \ {new[1]} : heap'[a] = heap[a]
               /\ total_slots'[p] = total_slots[p] + default_block_size
               /\ ret[1] = new[1] /\ ret[2] \in 0..(default_block_size - 1)
       /\ used_slots'[p] = (used_slots[p] + 1) % SizeMod
       /\ ret \notin Range(FreeSeqAfter(p))

\* C15, as stated: allocate(1) pops the head of a non-empty free-list and leaves blocks
\* and total_slots; with an empty free-list it adds exactly one block of exactly 16
\* slots and returns one of them; used_slots grows by 1 and the returned slot is no
\* longer on the free-list.
C15_AnyStep ==
    [][Called("allocate") /\ last'.n = 1 /\ ~last'.threw
        => AllocateOneStep(last'.pool)]_vars

\* C15, amended: the same, for a pool whose deallocate(p, 1) calls each passed a slot
\* that was outstanding.
C15_GoodFaithStep ==
    [][Called("allocate") /\ last'.n = 1 /\ ~last'.threw /\ ~misuse[last'.pool]
        => AllocateOneStep(last'.pool)]_vars

\* allocate(1) found the free-list empty after a release_all and grew one block
C15_Witness ==
    /\ last.op = "allocate" /\ last.n = 1 /\ ~last.threw
    /\ last.prev = "release_all" /\ ~misuse[last.pool]
    /\ Len(blocks[last.pool]) = 1
    /\ last.ptr = <<blocks[last.pool][1][1], default_block_size - 1>>
    /\ Len(FreeSeq(last.pool)) = default_block_size - 1

\* the free-list of p is sound: each slot on it lies in a live block p owns, no slot is
\* on it twice, and no slot on it is in a caller's hands
FreeListSound(f, owned, sizes, total, out) ==
    /\ \A i \in 1..Len(f) :
         /\ <<f[i][1], 0>> \in Range(owned)
         /\ sizes[f[i][1]] # 0
         /\ f[i][2] \in 0..(sizes[f[i][1]] \div SizeofT - 1)
    /\ Cardinality(Range(f)) = Len(f)
    /\ Len(f) <= total
    /\ Range(f) \cap out = {}

\* C16: while every deallocate(p, 1) passes a slot that is handed out, every slot on
\* the free-list lies in a block the pool owns, is on the list once and is not handed
\* out, and allocate(1) never returns a slot that is still handed out.
C16_FreeListInvariant ==
    /\ [](\A p \in Pools :
             ~misuse[p] => FreeListSound(FreeSeq(p), blocks[p], heap, total_slots[p],
                                         HeldPtrs))
    /\ [][Called("allocate") /\ last'.n = 1 /\ ~misuse[last'.pool]
             => last'.ptr \notin HeldPtrs]_vars

\* slots were returned out of order to a pool with two blocks: the free-list runs
\* through both blocks while a caller still holds a slot
C16_Witness ==
    /\ last.op = "deallocate" /\ last.n = 1 /\ ~misuse[last.pool]
    /\ Len(blocks[last.pool]) = 2
    /\ HeldIn(last.pool) # {}
    /\ LET f == FreeSeq(last.pool)
       IN /\ Len(f) > default_block_size
          /\ f[1] = last.ptr
          /\ f[2][1] # f[1][1]
          /\ \E h \in HeldIn(last.pool) : PtrLeq(last.ptr, h)

\* the slots of the blocks in seq, added up
RECURSIVE SumSlots(_)
SumSlots(seq) ==
    IF seq = <<>> THEN 0 ELSE SlotsOf(Head(seq)) + SumSlots(Tail(seq))

\* C18: while every deallocate(p, 1) passes a slot that is handed out, used_slots plus
\* the length of the free-list is total_slots, total_slots is the sum of the slot counts
\* of the owned blocks, and used_slots is the number of single slots handed out.
C18_SlotConservation ==
    \A p \in Pools :
        ~misuse[p] =>
            /\ used_slots[p] + Len(FreeSeq(p)) = total_slots[p]
            /\ total_slots[p] = SumSlots(blocks[p])
            /\ used_slots[p] = Cardinality(HeldIn(p))

\* a pool with two blocks took a slot back and handed it out again while another slot
\* was out
C18_Witness ==
    /\ last.op = "allocate" /\ last.n = 1 /\ last.prev = "deallocate"
    /\ ~misuse[last.pool]
    /\ Len(blocks[last.pool]) = 2
    /\ used_slots[last.pool] = 2
    /\ Len(FreeSeq(last.pool)) = 2 * default_block_size - 2

\* a slot of p as the caller can tell it from others: the position of its block in the
\* order the pool obtained its blocks, and the index in the block
BlockIndex(p, s) == <<Find(blocks'[p], <<s[1], 0>>), s[2]>>

\* C17: after a growth by a block of B slots, and with no deallocate since, the
\* allocate(1) calls return that block's slots B-1, B-2, ..., 0 in this order, before
\* any slot that was free before the growth; and two pools that are given the same
\* calls hand out slots of the same block position and index.
C17_AllocationOrder ==
    [][Called("allocate") =>
        /\ BlockIndex(1, last'.ptr) = BlockIndex(2, last'.twin)
        /\ last'.blk # 0 =>
             LET B == heap'[blocks'[1][last'.blk][1]] \div SizeofT
             IN last'.nth <= B =>
                  \A p \in Pools :
                      (IF p = 1 THEN last'.ptr ELSE last'.twin)
                          = <<blocks'[p][last'.blk][1], B - last'.nth>>]_vars

\* both pools have handed out the whole of their second block, down to slot 0, while
\* the slots of the first block are still free; the two pools have their blocks at
\* addresses in opposite order
C17_Witness ==
    /\ last.op = "allocate" /\ last.blk = 2 /\ last.nth = default_block_size
    /\ last.ptr = <<blocks[1][2][1], 0>> /\ last.twin = <<blocks[2][2][1], 0>>
    /\ free_list[1] = <<blocks[1][1][1], default_block_size - 1>>
    /\ Len(FreeSeq(1)) = default_block_size
    /\ blocks[1][1][1] < blocks[1][2][1]
    /\ blocks[2][1][1] > blocks[2][2][1]

\* the slots met from s by loading next cell by cell, at most fuel of them
RECURSIVE CellChain(_, _, _)
CellChain(s, size, fuel) ==
    IF s = NULL \/ fuel = 0 THEN <<>>
    ELSE <<s>> \o CellChain(load_next(cells, s, size, WILD), size, fuel - 1)

\* C19, as stated: for every element size, a pool of int included, no link is stored
\* past the end of its block, every link of a free slot is whole (no store to a
\* neighbouring slot has overwritten part of it), and after a growth by B slots the
\* free-list visits each of the B slots of the new block once.
C19_LinksInsideSlots ==
    \A p \in Pools :
        /\ \A i \in 1..Len(blocks[p]) :
              Len(cells[blocks[p][i][1]]) * Cell <= heap[blocks[p][i][1]]
        /\ WILD \notin Range(CellChain(free_list[p], Sizeof(p), total_slots[p]))
        /\ last.pool = p /\ last.op \in {"ctor", "reserve"} /\ last.blk # 0 =>
              LET new == blocks[p][last.blk]
                  B == heap[new[1]] \div Sizeof(p)
              IN CellChain(free_list[p], Sizeof(p), B) = Descending(new, B)

\* the records of p: its blocks, then its large allocations
Records(p) == blocks[p] \o large_allocs[p]

\* C20, as stated: every region obtained from the system allocator is freed exactly
\* once.  std::free is only ever called on a recorded region, so: every live region is
\* recorded by exactly one constructed pool (none is leaked, none has two owners), every
\* recorded region is live and recorded once (none will be freed a second time), and
\* when no pool is constructed no region is live.
C20_FreedExactlyOnce ==
    /\ \A a \in Addr :
          heap[a] # 0 =>
              Cardinality({p \in Pools : alive[p] /\ <<a, 0>> \in Range(Records(p))}) = 1
    /\ \A p \in Pools : \A r \in Range(Records(p)) :
          heap[r[1]] # 0 /\ Count(Records(p), r) = 1
    /\ (\A p \in Pools : ~alive[p]) => \A a \in Addr : heap[a] = 0

====
